---- MODULE Spec2Model ----
(***************************************************************************)
(* Model of the scene-resolution layer of video_gen: the canvas and        *)
(* safe-area geometry (tools/geometry/core.py), the role policy resolver   *)
(* (tools/graphics/core.py) and their callers.                             *)
(*                                                                         *)
(* A run is one call made by a client of the library: from the idle state  *)
(* the client picks a function and its arguments, the function runs to     *)
(* completion (the code is synchronous), and the state keeps the call, the *)
(* value returned, the diagnostics logged and the objects it mutated.      *)
(*                                                                         *)
(* Numbers.  Pixel coordinates are Python ints.  The code computes scales  *)
(* and centres in floats; here a real number is an exact fraction n/d      *)
(* (d > 0) and _round_i(n, d) is Python's int(round(n/d)), which rounds    *)
(* halves to the even integer.  The title-safe fractions are dyadic        *)
(* (k/4, k/8, k/16), which floats hold exactly.                            *)
(***************************************************************************)
EXTENDS Integers, Sequences, FiniteSets, TLC

VARIABLES
    pc,        \* "idle", "built", "returned" or "raised": where the client is
    call,      \* the call made: its name and the arguments as passed
    ret,       \* the value the call returned
    warnings,  \* number of records logging.warning has emitted
    gspec      \* the caller's GraphicSpec object: <<>> before it is built

vars == <<pc, call, ret, warnings, gspec>>

---------------------------------------------------------------------------
(* Bounds of the input domains *)

MaxCanvas == 4   \* canvas sides range over 1..MaxCanvas
MaxDim == 5      \* widths and heights range up to MaxDim
MaxOrigin == 1   \* origin of a fit/cover destination: 0..MaxOrigin

Canvases == 1..MaxCanvas
Coords == -1..(MaxCanvas + 1)
\* sides of a rect to snap or to anchor in
Sizes == 0..MaxDim
\* sizes passed to fit_into_rect and warn_if_upscale, non-positive ones included
Dims == -1..MaxDim
Origins == 0..MaxOrigin

\* title_area as a fraction <<n, d>> of each edge, in [0, 1/2)
TitleAreas == {<<0, 1>>, <<1, 4>>, <<3, 8>>, <<7, 16>>}

Metas == [width : Canvases, height : Canvases, title_area : TitleAreas]

Rects == Coords \X Coords \X Sizes \X Sizes

DstRects == Origins \X Origins \X Dims \X Dims

Modes == {"fit", "cover", "stretch"}

Aligns == {"left", "center", "right"}

\* the limit of warn_if_upscale as a fraction <<n, d>>; 3/2 is the default
Limits == {<<1, 1>>, <<3, 2>>, <<2, 1>>}

DefaultLimit == <<3, 2>>

MaxLayoutDim == 1   \* layout rects of a GraphicSpec: sides 0..MaxLayoutDim

\* the four roles, and one value outside them
Roles == {"background", "illustration", "overlay", "special", "banner"}

\* Optional[str] as a sequence: <<>> is None
OptionalStr(v) == {<<>>, <<v>>}

LayoutRects == {0} \X {0} \X (0..MaxLayoutDim) \X (0..MaxLayoutDim)

\* Layout: the fields the resolver reads or writes (align, rotation and
\* opacity are carried along untouched)
Layouts == [rect : LayoutRects, mode : Modes, snap_safe : BOOLEAN]

\* GraphicSpec with layout : Optional[Layout] as a sequence
GraphicSpecs ==
    [role : Roles, src : OptionalStr("logo.png"), color : OptionalStr("#fff"),
     layout : {<<>>} \cup {<<ly>> : ly \in Layouts}]

\* the canvases the policy resolver is called with (it never reads meta)
PolicyMetas == {m \in Metas : m.width = MaxCanvas /\ m.height = MaxCanvas}

---------------------------------------------------------------------------
(* tools/utils/basics.py *)

Max(a, b) == IF a >= b THEN a ELSE b

Min(a, b) == IF a <= b THEN a ELSE b

\* max(lo, min(hi, v)): the lower bound wins when lo > hi
_clamp(v, lo, hi) == Max(lo, Min(hi, v))

\* a mutant of _round_i: int(v) without round(), which truncates toward zero
round_i_truncating(n, d) ==
    IF n >= 0 THEN n \div d ELSE -((-n) \div d)

\* int(round(n/d)) for d > 0: nearest integer, halves to the even one
_round_i(n, d) ==
    LET q == n \div d
        r == n % d
    IN  IF 2 * r < d THEN q
        ELSE IF 2 * r > d THEN q + 1
        ELSE IF q % 2 = 0 THEN q ELSE q + 1

---------------------------------------------------------------------------
(* tools/geometry/core.py *)

\* round(canvas * title_area): the safe margin on one axis
safe_margin(canvas, m) == _round_i(canvas * m[1], m[2])

\* a mutant of snap_axis: the too-long branch clamps the input origin into the
\* canvas instead of pinning it to the safe margin
snap_axis_keeps_origin(v, len, canvas, m) ==
    LET safe_lo == safe_margin(canvas, m)
        safe_hi == canvas - safe_lo
        safe_len == Max(0, safe_hi - safe_lo)
    IN  IF len > safe_len
        THEN _round_i(_clamp(v, 0, canvas - len), 1)
        ELSE _round_i(_clamp(v, safe_lo, safe_hi - len), 1)

\* a mutant of snap_axis: the margin is applied on the low side only
snap_axis_low_side_only(v, len, canvas, m) ==
    LET safe_lo == safe_margin(canvas, m)
        safe_hi == canvas - safe_lo
        safe_len == Max(0, safe_hi - safe_lo)
    IN  IF len > safe_len
        THEN _round_i(_clamp(safe_lo, 0, canvas - len), 1)
        ELSE _round_i(_clamp(v, safe_lo, canvas - len), 1)

\* one axis of snap_to_safe: the new origin of a span of length len that
\* starts at v (the code spells the same steps out for x and for y)
snap_axis(v, len, canvas, m) ==
    LET safe_lo == safe_margin(canvas, m)
        safe_hi == canvas - safe_lo
        safe_len == Max(0, safe_hi - safe_lo)
    IN  IF len > safe_len
        THEN _round_i(_clamp(safe_lo, 0, canvas - len), 1)
        ELSE _round_i(_clamp(v, safe_lo, safe_hi - len), 1)

\* a mutant of snap_to_safe: a rect longer than the safe box is shrunk to it
snap_to_safe_resizing(rect, meta) ==
    LET m == meta.title_area
        safe_w == Max(0, meta.width - 2 * safe_margin(meta.width, m))
        safe_h == Max(0, meta.height - 2 * safe_margin(meta.height, m))
    IN  << snap_axis(rect[1], rect[3], meta.width, m),
           snap_axis(rect[2], rect[4], meta.height, m),
           Min(rect[3], safe_w),
           Min(rect[4], safe_h) >>

snap_to_safe(rect, meta) ==
    LET m == meta.title_area
    IN  << snap_axis(rect[1], rect[3], meta.width, m),
           snap_axis(rect[2], rect[4], meta.height, m),
           _round_i(rect[3], 1),
           _round_i(rect[4], 1) >>

\* a mutant of fit_scale: an unrecognised mode falls back to "cover"
fit_scale_fallback_cover(src_w, src_h, dw, dh, mode) ==
    LET by_width == IF mode = "fit"
                    THEN dw * src_h <= dh * src_w
                    ELSE dw * src_h >= dh * src_w
    IN  IF by_width THEN <<dw, src_w>> ELSE <<dh, src_h>>

\* a mutant of fit_scale: min and max exchanged
fit_scale_exchanged(src_w, src_h, dw, dh, mode) ==
    LET by_width == IF mode = "cover"
                    THEN dw * src_h <= dh * src_w
                    ELSE dw * src_h >= dh * src_w
    IN  IF by_width THEN <<dw, src_w>> ELSE <<dh, src_h>>

\* the scale of fit_into_rect as a fraction <<n, d>>, for positive sizes:
\* min(dw/src_w, dh/src_h) for "fit", the max for "cover"; any other mode
\* is read as "fit"
fit_scale(src_w, src_h, dw, dh, mode) ==
    LET m == IF mode \notin {"fit", "cover"} THEN "fit" ELSE mode
        by_width == IF m = "fit"
                    THEN dw * src_h <= dh * src_w
                    ELSE dw * src_h >= dh * src_w
    IN  IF by_width THEN <<dw, src_w>> ELSE <<dh, src_h>>

\* a mutant of fit_into_rect: the content is centred as if the destination
\* began at the origin, dx and dy being left out of the position
fit_into_rect_from_origin(src_w, src_h, dst_rect, mode) ==
    LET dw == dst_rect[3]
        dh == dst_rect[4]
    IN  IF src_w <= 0 \/ src_h <= 0 \/ dw <= 0 \/ dh <= 0
        THEN <<dst_rect[1], dst_rect[2], 0, 0>>
        ELSE LET scale == fit_scale(src_w, src_h, dw, dh, mode)
                 sn == scale[1]
                 sd == scale[2]
             IN  <<_round_i(dw * sd - src_w * sn, 2 * sd),
                   _round_i(dh * sd - src_h * sn, 2 * sd),
                   Max(1, _round_i(src_w * sn, sd)),
                   Max(1, _round_i(src_h * sn, sd))>>

fit_into_rect(src_w, src_h, dst_rect, mode) ==
    LET dx == dst_rect[1]
        dy == dst_rect[2]
        dw == dst_rect[3]
        dh == dst_rect[4]
    IN  IF src_w <= 0 \/ src_h <= 0 \/ dw <= 0 \/ dh <= 0
        THEN <<dx, dy, 0, 0>>
        ELSE LET scale == fit_scale(src_w, src_h, dw, dh, mode)
                 sn == scale[1]
                 sd == scale[2]
                 \* w = src_w * sn / sd and h = src_h * sn / sd;
                 \* x = dx + (dw - w) / 2 and y = dy + (dh - h) / 2
                 w_i == Max(1, _round_i(src_w * sn, sd))
                 h_i == Max(1, _round_i(src_h * sn, sd))
                 x_i == _round_i(2 * dx * sd + dw * sd - src_w * sn, 2 * sd)
                 y_i == _round_i(2 * dy * sd + dh * sd - src_h * sn, 2 * sd)
             IN  <<x_i, y_i, w_i, h_i>>

\* a mutant of place_in_rect: the centre by integer division, x + w // 2
place_in_rect_floor_div(dst_rect, align) ==
    LET x == dst_rect[1]
        y == dst_rect[2]
        w == dst_rect[3]
        h == dst_rect[4]
        cy == y + (h \div 2)
        ax == IF align = "center" THEN x + (w \div 2)
              ELSE IF align = "right" THEN x + w
              ELSE x
    IN  <<ax, cy>>

\* (anchor_x, center_y)
place_in_rect(dst_rect, align) ==
    LET x == dst_rect[1]
        y == dst_rect[2]
        w == dst_rect[3]
        h == dst_rect[4]
        cy == _round_i(2 * y + h, 2)
        ax == IF align = "center" THEN _round_i(2 * x + w, 2)
              ELSE IF align = "right" THEN _round_i(x + w, 1)
              ELSE _round_i(x, 1)
    IN  <<ax, cy>>

\* a mutant of warn_if_upscale: the diagnostic at scale >= limit
warn_if_upscale_at_limit(src_wh, dst_rect, limit) ==
    LET sw == src_wh[1]
        sh == src_wh[2]
        dw == dst_rect[3]
        dh == dst_rect[4]
    IN  IF sw <= 0 \/ sh <= 0 \/ dw <= 0 \/ dh <= 0 THEN 0
        ELSE IF dw * limit[2] >= limit[1] * sw \/ dh * limit[2] >= limit[1] * sh
             THEN 1 ELSE 0

\* the number of records warn_if_upscale logs (it returns None):
\* scale = max(dw/sw, dh/sh) exceeds limit = limit[1]/limit[2] iff one of the
\* two ratios does
warn_if_upscale(src_wh, dst_rect, limit) ==
    LET sw == src_wh[1]
        sh == src_wh[2]
        dw == dst_rect[3]
        dh == dst_rect[4]
    IN  IF sw <= 0 \/ sh <= 0 \/ dw <= 0 \/ dh <= 0 THEN 0
        ELSE IF dw * limit[2] > limit[1] * sw \/ dh * limit[2] > limit[1] * sh
             THEN 1 ELSE 0

---------------------------------------------------------------------------
(* tools/graphics/core.py *)

\* a mutant of apply_policies: the overlay branch does not force snap_safe
apply_policies_overlay_unforced(spec, meta) ==
    LET ly == spec.layout[1]
        valid == ly.mode \in {"fit", "cover"}
        resolved ==
            IF spec.role = "background"
            THEN [ly EXCEPT !.mode = IF valid THEN @ ELSE "cover",
                            !.snap_safe = FALSE]
            ELSE [ly EXCEPT !.mode = IF valid THEN @ ELSE "fit"]
    IN  [spec EXCEPT !.layout = <<resolved>>]

\* the spec apply_policies returns when spec.layout is not None: the layout
\* object is written in place and the spec passed in is the one returned
apply_policies(spec, meta) ==
    LET ly == spec.layout[1]
        valid == ly.mode \in {"fit", "cover"}
        resolved ==
            IF spec.role = "background"
            THEN [ly EXCEPT !.mode = IF valid THEN @ ELSE "cover",
                            !.snap_safe = FALSE]
            ELSE IF spec.role = "overlay"
            THEN [ly EXCEPT !.snap_safe = TRUE,
                            !.mode = IF valid THEN @ ELSE "fit"]
            ELSE [ly EXCEPT !.mode = IF valid THEN @ ELSE "fit"]
    IN  [spec EXCEPT !.layout = <<resolved>>]

\* a mutant of validate_graphic_spec: it stops at the first violation
validate_graphic_spec_first_only(spec, meta) ==
    LET role_errors ==
            IF spec.role \notin {"background", "illustration", "overlay", "special"}
            THEN <<"role invalid">> ELSE <<>>
        source_errors ==
            IF spec.src = <<>> /\ spec.color = <<>>
            THEN IF spec.role = "background"
                 THEN <<"background needs either src (image) or color">>
                 ELSE <<"non-background needs src or color (shape overlay)">>
            ELSE <<>>
        layout_errors ==
            IF spec.layout = <<>> THEN <<"layout missing">>
            ELSE IF spec.layout[1].rect[3] <= 0 \/ spec.layout[1].rect[4] <= 0
                 THEN <<"layout.rect width/height must be > 0">>
                 ELSE <<>>
        errors == role_errors \o source_errors \o layout_errors
    IN  IF errors = <<>> THEN <<>> ELSE <<Head(errors)>>

\* the list of violations validate_graphic_spec returns, in the order it
\* appends them (meta is not read)
validate_graphic_spec(spec, meta) ==
    LET role_errors ==
            IF spec.role \notin {"background", "illustration", "overlay", "special"}
            THEN <<"role invalid">> ELSE <<>>
        source_errors ==
            IF spec.src = <<>> /\ spec.color = <<>>
            THEN IF spec.role = "background"
                 THEN <<"background needs either src (image) or color">>
                 ELSE <<"non-background needs src or color (shape overlay)">>
            ELSE <<>>
        layout_errors ==
            IF spec.layout = <<>> THEN <<"layout missing">>
            ELSE IF spec.layout[1].rect[3] <= 0 \/ spec.layout[1].rect[4] <= 0
                 THEN <<"layout.rect width/height must be > 0">>
                 ELSE <<>>
    IN  role_errors \o source_errors \o layout_errors

---------------------------------------------------------------------------
(* tools/timeline/core.py and tools/timeline/builder.py *)

\* The schema types are taken as the values they declare: Meta is the record
\* of its fields and Rect(*rect) is the 4-tuple of its arguments.

MaxSlots == 2      \* text slots of a scene: at most MaxSlots
MaxGraphics == 1   \* graphics of a scene: at most MaxGraphics

\* a function either returns a value or raises an exception
Returned(v) == [ok |-> TRUE, val |-> v]

Raised(kind, msg) == [ok |-> FALSE, kind |-> kind, msg |-> msg]

\* the result of a loop over items: the first exception raised, else the
\* list of the values
FirstRaised(results) ==
    LET failed == {i \in DOMAIN results : ~results[i].ok}
    IN  IF failed = {}
        THEN Returned([i \in DOMAIN results |-> results[i].val])
        ELSE results[CHOOSE i \in failed : \A j \in failed : i <= j]

_ROLE_DEFAULT_Z ==
    [role \in {"background", "illustration", "overlay", "special"} |->
        CASE role = "background" -> 0
          [] role = "illustration" -> 5
          [] role = "overlay" -> 30
          [] role = "special" -> 40]

\* the canvas of the scenes: safe box [1, MaxCanvas - 1] on each axis
SceneMeta == [width |-> MaxCanvas, height |-> MaxCanvas, title_area |-> <<1, 4>>]

\* rects of loosely-typed input records: a positive one, a zero-width one and
\* a zero-height one; absent is <<>>
InputRects == {<<0, 0, 2, 1>>, <<0, 0, 0, 1>>, <<0, 0, 2, 0>>}

OptionalRect == {<<>>} \cup {<<r>> : r \in InputRects}

\* a "style" dict: each key is absent (<<>>) or set to a value that is not
\* its default; "underline" is no field of Style, yet a dict may carry it
StyleDicts ==
    [color : OptionalStr("#cbd5e1"),
     stroke_color : OptionalStr("#111111"),
     stroke_width : {<<>>, <<2>>},
     opacity : {<<>>, <<<<1, 2>>>>},
     pad : {<<>>, <<6>>},
     interline : {<<>>, <<8>>},
     underline : {<<>>, <<2>>},
     baseline_pad_pct : {<<>>, <<<<1, 4>>>>},
     top_pad_pct : {<<>>, <<<<1, 5>>>>}]

\* the dict that carries exactly the keys of K
StyleDictOf(K) ==
    CHOOSE d \in StyleDicts : \A k \in DOMAIN d : (d[k] # <<>>) <=> (k \in K)

\* the styles text slots come with: none, the one of the repository's test
\* scene, and one that sets "underline"
SlotStyles ==
    {<<>>, <<StyleDictOf({"color", "interline"})>>, <<StyleDictOf({"underline"})>>}

\* a text slot record: the keys the claims are about (font, payload,
\* motion, layer and align take their defaults)
SlotItems ==
    [slot_id : {<<>>, <<"term">>, <<"definition">>}, rect : OptionalRect,
     style : SlotStyles]

\* the "layout" dict of a graphic record
LayoutDicts ==
    [rect : OptionalRect,
     mode : {<<>>, <<"cover">>},
     snap_safe : {<<>>, <<FALSE>>}]

\* meta.size of a graphic record: a positive size, a non-positive one and a
\* malformed one
MetaSizes == {<<>>, <<<<2, 1>>>>, <<<<0, 1>>>>, <<<<1, 1, 1>>>>}

\* a graphic record
GraphicItems ==
    [role : {<<>>} \cup {<<r>> : r \in Roles},
     src : OptionalStr("logo.png"),
     color : OptionalStr("#fff"),
     layout : {<<>>} \cup {<<d>> : d \in LayoutDicts},
     size : MetaSizes,
     z_hint : {<<>>, <<7>>}]

\* a presenter record; the one with no key at all is the empty dict
PresenterItems ==
    [src : OptionalStr("host.mp4"),
     rect : OptionalRect \cup {<<<<0, 0, MaxDim, 1>>>>},
     shape : OptionalStr("rect"),
     layer : {<<>>, <<7>>}]

\* a mutant of graphic_z_hint: the caller's override is ignored
graphic_z_hint_role_only(item, role) == _ROLE_DEFAULT_Z[role]

\* z = item.get("z_hint", _ROLE_DEFAULT_Z[role])
graphic_z_hint(item, role) ==
    IF item.z_hint # <<>> THEN item.z_hint[1] ELSE _ROLE_DEFAULT_Z[role]

_normalize_layout(d) ==
    IF d = <<>>
    THEN Raised("AttributeError", "'NoneType' object has no attribute 'get'")
    ELSE IF d[1].rect = <<>>
    THEN Raised("ValueError", "Layout rect must be a 4-tuple (x, y, w, h)")
    ELSE Returned([rect |-> d[1].rect[1],
                   mode |-> IF d[1].mode = <<>> THEN "fit" ELSE d[1].mode[1],
                   snap_safe |-> IF d[1].snap_safe = <<>> THEN TRUE
                                 ELSE d[1].snap_safe[1]])

\* the call fit_into_rect(rect, (sw, sh), mode=layout.mode) binds rect to
\* src_w and (sw, sh) to src_h and leaves dst_rect unbound
_apply_graphic_layout(layout, src_wh, meta) ==
    LET rect == IF layout.snap_safe THEN snap_to_safe(layout.rect, meta)
                ELSE layout.rect
    IN  IF src_wh # <<>>
        THEN Raised("TypeError",
                 "fit_into_rect() missing 1 required positional argument: 'dst_rect'")
        ELSE Returned([layout EXCEPT !.rect = rect])

\* src_wh of a graphic record: <<>> is None
graphic_src_wh(item) ==
    IF /\ item.size # <<>>
       /\ Len(item.size[1]) = 2
       /\ item.size[1][1] > 0
       /\ item.size[1][2] > 0
    THEN <<item.size[1]>>
    ELSE <<>>

\* one turn of the loop of _normalize_graphics
normalize_graphic(item, meta) ==
    LET role == IF item.role = <<>> THEN "illustration" ELSE item.role[1]
        layout == _normalize_layout(item.layout)
        applied == _apply_graphic_layout(layout.val, graphic_src_wh(item), meta)
    IN  IF role \notin DOMAIN _ROLE_DEFAULT_Z
        THEN Raised("ValueError", "Invalid role")
        ELSE IF ~layout.ok THEN layout
        ELSE IF ~applied.ok THEN applied
        ELSE Returned([role |-> role,
                       src |-> item.src,
                       color |-> item.color,
                       layout |-> <<applied.val>>,
                       z_hint |-> graphic_z_hint(item, role),
                       meta |-> [size |-> item.size]])

_normalize_graphics(items, meta) ==
    FirstRaised([i \in 1..Len(items) |-> normalize_graphic(items[i], meta)])

\* schema/dataclass.py: Style() at its defaults; fractions are <<n, d>> and
\* stroke_color is None
Style ==
    [color |-> "white", stroke_color |-> <<>>, stroke_width |-> 0,
     opacity |-> <<1, 1>>, pad |-> 0, interline |-> 4,
     baseline_pad_pct |-> <<8, 25>>, top_pad_pct |-> <<1, 10>>]

\* d.get(key, default) on a style dict
StyleGet(d, key, default) == IF d[key] = <<>> THEN default ELSE d[key][1]

\* interline is read from the key "underline"
_normalize_style(d) ==
    IF d = <<>> THEN Style
    ELSE [color |-> StyleGet(d[1], "color", "#ffffff"),
          stroke_color |-> <<StyleGet(d[1], "stroke_color", "#000000")>>,
          stroke_width |-> StyleGet(d[1], "stroke_width", 0),
          opacity |-> StyleGet(d[1], "opacity", <<1, 1>>),
          pad |-> StyleGet(d[1], "pad", 0),
          interline |-> StyleGet(d[1], "underline", 4),
          baseline_pad_pct |-> StyleGet(d[1], "baseline_pad_pct", <<8, 25>>),
          top_pad_pct |-> StyleGet(d[1], "top_pad_pct", <<1, 10>>)]

\* one turn of the loop of _normalize_texts
normalize_text(item) ==
    IF item.slot_id = <<>>
    THEN Raised("ValueError", "TextSpec must have a slot_id")
    ELSE IF item.rect = <<>>
    THEN Raised("ValueError", "TextSpec rect must be a 4-tuple (x, y, w, h)")
    ELSE Returned([slot_id |-> item.slot_id[1],
                   style |-> _normalize_style(item.style),
                   rect |-> item.rect[1],
                   payload |-> "",
                   layer |-> 10,
                   align |-> "left"])

_normalize_texts(items, meta) ==
    FirstRaised([i \in 1..Len(items) |-> normalize_text(items[i])])

\* the empty dict: `not item` holds
EmptyDict(item) ==
    item.src = <<>> /\ item.rect = <<>> /\ item.shape = <<>> /\ item.layer = <<>>

\* a mutant of _normalize_presenter: the rect is taken as given
_normalize_presenter_unsnapped(item, meta) ==
    IF item = <<>> \/ EmptyDict(item[1]) THEN Returned(<<>>)
    ELSE IF item[1].src = <<>>
    THEN Raised("ValueError", "PresenterSpec must have a 'src' field")
    ELSE IF item[1].rect = <<>>
    THEN Raised("ValueError", "PresenterSpec must have a 'rect' field")
    ELSE Returned(<<[src |-> item[1].src[1],
                     rect |-> item[1].rect[1],
                     shape |-> IF item[1].shape = <<>> THEN "circle"
                               ELSE item[1].shape[1],
                     layer |-> IF item[1].layer = <<>> THEN 20
                               ELSE item[1].layer[1]]>>)

\* item is <<>> for None; the value returned is <<>> for None
_normalize_presenter(item, meta) ==
    IF item = <<>> \/ EmptyDict(item[1]) THEN Returned(<<>>)
    ELSE IF item[1].src = <<>>
    THEN Raised("ValueError", "PresenterSpec must have a 'src' field")
    ELSE IF item[1].rect = <<>>
    THEN Raised("ValueError", "PresenterSpec must have a 'rect' field")
    ELSE Returned(<<[src |-> item[1].src[1],
                     rect |-> snap_to_safe(item[1].rect[1], meta),
                     shape |-> IF item[1].shape = <<>> THEN "circle"
                               ELSE item[1].shape[1],
                     layer |-> IF item[1].layer = <<>> THEN 20
                               ELSE item[1].layer[1]]>>)

\* a mutant of require_positive_rects: the presenter's rect is not checked
require_positive_rects_no_presenter(text_norms, graphic_norms, presenter_norm) ==
    IF \E i \in 1..Len(text_norms) :
            ~(text_norms[i].rect[3] > 0 /\ text_norms[i].rect[4] > 0)
    THEN Raised("ValueError", "TextSpec must have positive width and height")
    ELSE IF \E i \in 1..Len(graphic_norms) :
            /\ graphic_norms[i].layout # <<>>
            /\ ~(graphic_norms[i].layout[1].rect[3] > 0
                    /\ graphic_norms[i].layout[1].rect[4] > 0)
    THEN Raised("ValueError", "GraphicSpec must have positive width and height")
    ELSE Returned(TRUE)

\* the three loops of build_scene over the normalized specs
require_positive_rects(text_norms, graphic_norms, presenter_norm) ==
    IF \E i \in 1..Len(text_norms) :
            ~(text_norms[i].rect[3] > 0 /\ text_norms[i].rect[4] > 0)
    THEN Raised("ValueError", "TextSpec must have positive width and height")
    ELSE IF \E i \in 1..Len(graphic_norms) :
            /\ graphic_norms[i].layout # <<>>
            /\ ~(graphic_norms[i].layout[1].rect[3] > 0
                    /\ graphic_norms[i].layout[1].rect[4] > 0)
    THEN Raised("ValueError", "GraphicSpec must have positive width and height")
    ELSE IF /\ presenter_norm # <<>>
            /\ ~(presenter_norm[1].rect[3] > 0 /\ presenter_norm[1].rect[4] > 0)
    THEN Raised("ValueError", "PresenterSpec must have positive width and height")
    ELSE Returned(TRUE)

\* a mutant of build_scene_checks: a zero duration is let through
build_scene_checks_zero_duration(start, duration, background) ==
    IF ~(duration >= 0)
    THEN Raised("ValueError", "Duration must be greater than 0")
    ELSE IF ~(start >= 0)
    THEN Raised("ValueError", "Start time must be non-negative")
    ELSE IF background \cap {"color", "video", "image"} = {}
    THEN Raised("ValueError",
             "Background must contain at least one of 'color', 'video', or 'image'")
    ELSE Returned(TRUE)

\* the three _require calls that open build_scene; background is the set of
\* the keys of the dict
build_scene_checks(start, duration, background) ==
    IF ~(duration > 0)
    THEN Raised("ValueError", "Duration must be greater than 0")
    ELSE IF ~(start >= 0)
    THEN Raised("ValueError", "Start time must be non-negative")
    ELSE IF background \cap {"color", "video", "image"} = {}
    THEN Raised("ValueError",
             "Background must contain at least one of 'color', 'video', or 'image'")
    ELSE Returned(TRUE)

\* a mutant of Scene: transition_out is left at its default None
Scene_without_transition(a, text_norms, graphic_norms, presenter_norm) ==
    [id |-> a.scene_id,
     type |-> a.scene_type,
     start |-> a.start,
     duration |-> a.duration,
     background |-> a.background,
     slots |-> text_norms,
     graphics |-> graphic_norms,
     presenter |-> presenter_norm,
     transition_out |-> <<>>]

\* the Scene(...) that ends build_scene
Scene(a, text_norms, graphic_norms, presenter_norm) ==
    [id |-> a.scene_id,
     type |-> a.scene_type,
     start |-> a.start,
     duration |-> a.duration,
     background |-> a.background,
     slots |-> text_norms,
     graphics |-> graphic_norms,
     presenter |-> presenter_norm,
     transition_out |-> a.transition_out]

\* a mutant of build_scene: the graphics are normalized before the text slots
build_scene_graphics_first(a) ==
    LET checks == build_scene_checks(a.start, a.duration, a.background)
        text_norms == _normalize_texts(a.slots, a.meta)
        graphic_norms == _normalize_graphics(a.graphics, a.meta)
        presenter_norm == _normalize_presenter(a.presenter, a.meta)
        positive == require_positive_rects(text_norms.val, graphic_norms.val,
                                           presenter_norm.val)
    IN  IF ~checks.ok THEN checks
        ELSE IF ~graphic_norms.ok THEN graphic_norms
        ELSE IF ~text_norms.ok THEN text_norms
        ELSE IF ~presenter_norm.ok THEN presenter_norm
        ELSE IF ~positive.ok THEN positive
        ELSE Returned(Scene(a, text_norms.val, graphic_norms.val,
                            presenter_norm.val))

\* build_scene(**a)
build_scene(a) ==
    LET checks == build_scene_checks(a.start, a.duration, a.background)
        text_norms == _normalize_texts(a.slots, a.meta)
        graphic_norms == _normalize_graphics(a.graphics, a.meta)
        presenter_norm == _normalize_presenter(a.presenter, a.meta)
        positive == require_positive_rects(text_norms.val, graphic_norms.val,
                                           presenter_norm.val)
    IN  IF ~checks.ok THEN checks
        ELSE IF ~text_norms.ok THEN text_norms
        ELSE IF ~graphic_norms.ok THEN graphic_norms
        ELSE IF ~presenter_norm.ok THEN presenter_norm
        ELSE IF ~positive.ok THEN positive
        ELSE Returned(Scene(a, text_norms.val, graphic_norms.val,
                            presenter_norm.val))

---------------------------------------------------------------------------
(* tools/texts/layout.py *)

\* Sizes are pixels, scale factors are fractions <<n, d>> with d > 0, and a
\* rendered text block (TextClip) is its size <<w, h>>.

MaxFont == 3    \* font sizes 1..MaxFont, min_font_size 0..MaxFont + 1
MaxBlock == 3   \* a rendered text block is at most MaxBlock wide and high
MaxLines == 2   \* structured text has at most MaxLines lines

FontSizes == 1..MaxFont

MinFontSizes == 0..(MaxFont + 1)

\* what _mk_text_clip renders, before padding
TextBlocks == {1, MaxBlock} \X (1..MaxBlock)

\* the layout rect of the element: heights below, among and above the
\* heights of the padded blocks
TextRects == {<<0, 1, 6, h>> : h \in {0, 1, 5, 9, 20, 40}}

\* Style(): the fields the layout reads, at their defaults
DefaultStyle ==
    [pad |-> 0, interline |-> 4, top_pad_pct |-> <<1, 10>>,
     baseline_pad_pct |-> <<8, 25>>]

\* ceil(n / d) and int(n / d) for n >= 0, d > 0
ceil_frac(n, d) == -((-n) \div d)

int_frac(n, d) == n \div d

pad_top(px, style) ==
    Max(2, ceil_frac(px * style.top_pad_pct[1], style.top_pad_pct[2]))

pad_bottom(px, style) ==
    Max(4, ceil_frac(px * style.baseline_pad_pct[1], style.baseline_pad_pct[2]))

\* _pad_transparent(base, 0, pad_top, 0, pad_bottom)
padded_block(base, px, style) ==
    <<base[1], base[2] + pad_top(px, style) + pad_bottom(px, style)>>

\* allowed_h of wrapped_text_clip; max_lines is <<>> for None
allowed_height(rect, px, style, max_lines) ==
    IF max_lines # <<>> /\ max_lines[1] # 0
    THEN LET line_h == px + style.interline
             tn == style.top_pad_pct[1]
             td == style.top_pad_pct[2]
             bn == style.baseline_pad_pct[1]
             bd == style.baseline_pad_pct[2]
         IN  Min(rect[4],
                 int_frac(tn * px * bd + max_lines[1] * line_h * td * bd
                              + bn * px * td,
                          td * bd))
    ELSE rect[4]

\* a mutant of shrink_scale: the scale is never pinned to the minimum font
shrink_scale_unpinned(px, block_h, allowed_h, min_font_size) ==
    <<allowed_h, block_h>>

\* the scale of the shrink branch: est_font = px * allowed_h / block_h
shrink_scale(px, block_h, allowed_h, min_font_size) ==
    IF px * allowed_h < min_font_size * block_h
    THEN <<min_font_size, px>>
    ELSE <<allowed_h, block_h>>

\* max(1, int(v * scale)): the float product of an exact integer can fall
\* just short of it, and int() then gives one less
scaled_px(v, scale) ==
    LET q == (v * scale[1]) \div scale[2]
    IN  IF (v * scale[1]) % scale[2] = 0 /\ q > 0
        THEN {Max(1, q), Max(1, q - 1)}
        ELSE {Max(1, q)}

_place_in_rect(clip, rect, h_align, v_align) ==
    LET px == CASE h_align = "center" -> rect[1] + Max(0, (rect[3] - clip[1]) \div 2)
                [] h_align = "right" -> rect[1] + Max(0, rect[3] - clip[1])
                [] OTHER -> rect[1]
        py == CASE v_align = "center" -> rect[2] + Max(0, (rect[4] - clip[2]) \div 2)
                [] v_align = "bottom" -> rect[2] + Max(0, rect[4] - clip[2])
                [] OTHER -> rect[2]
    IN  <<px, py>>

\* the scale wrapped_text_clip resizes by: <<>> when it does not resize
wrapped_scale(a) ==
    LET block == padded_block(a.base, a.px, a.style)
        allowed_h == allowed_height(a.rect, a.px, a.style, a.max_lines)
    IN  IF a.overflow = "shrink" /\ block[2] > allowed_h
        THEN <<shrink_scale(a.px, block[2], allowed_h, a.min_font_size)>>
        ELSE <<>>

\* the sizes the block can have after the shrink step
wrapped_sizes(a) ==
    LET block == padded_block(a.base, a.px, a.style)
        scale == wrapped_scale(a)
    IN  IF scale = <<>> THEN {block}
        ELSE scaled_px(block[1], scale[1]) \X scaled_px(block[2], scale[1])

\* the clip wrapped_text_clip returns, given the size after the shrink step
\* (resized), with the padded block and the scale it was resized by
wrapped_text_clip(a, size) ==
    LET v_align ==
            IF a.element_id \in {"section_marker", "equation", "quiz_question",
                                 "quiz_feedback", "cta"}
            THEN "center"
            ELSE IF a.element_id = "captions" THEN "bottom" ELSE "top"
        bg_pad == Max(a.style.pad, 14)
        clip == IF a.element_id = "captions"
                THEN <<size[1] + 2 * bg_pad, size[2] + 2 * bg_pad>>
                ELSE size
    IN  [size |-> clip,
         pos |-> _place_in_rect(clip, a.rect, a.h_align, v_align),
         block |-> padded_block(a.base, a.px, a.style),
         resized |-> size,
         allowed_h |-> allowed_height(a.rect, a.px, a.style, a.max_lines),
         scale |-> wrapped_scale(a)]

\* times are milliseconds; the least duration of a line is 0.001 s
Epsilon == 1

\* int(gap * scale), the float product falling short as in scaled_px
scaled_gap(gap, scale) ==
    LET q == (gap * scale[1]) \div scale[2]
    IN  IF (gap * scale[1]) % scale[2] = 0 /\ q > 0 THEN {q, q - 1} ELSE {q}

RECURSIVE sum_heights(_)
sum_heights(clips) ==
    IF clips = <<>> THEN 0 ELSE Head(clips)[2] + sum_heights(Tail(clips))

\* total_h = sum(c.h for c in line_clips) + gap * (len(line_clips) - 1)
total_height(clips, gap) == sum_heights(clips) + gap * (Len(clips) - 1)

\* the lists the resize loop can leave in line_clips
RECURSIVE resized_lines(_, _)
resized_lines(clips, scale) ==
    IF clips = <<>> THEN {<<>>}
    ELSE {<<<<w, h>>>> \o rest :
            w \in scaled_px(Head(clips)[1], scale),
            h \in scaled_px(Head(clips)[2], scale),
            rest \in resized_lines(Tail(clips), scale)}

\* a mutant of line_start: a negative stagger is not raised to 0
line_start_unclamped(i, stagger) == i * stagger

\* start_i = i * max(0.0, float(stagger)), i counted from 0
line_start(i, stagger) == i * Max(0, stagger)

\* live_dur = max(0.001, duration - start_i)
line_duration(duration, start_i) == Max(Epsilon, duration - start_i)

\* line_clips and gap before the rescale
structured_lines(a) ==
    [i \in 1..Len(a.lines) |-> padded_block(a.lines[i], a.px, a.style)]

structured_gap(a) ==
    IF a.gap_px # <<>> THEN a.gap_px[1] ELSE Max(6, int_frac(a.px, 4))

\* the pairs <<line_clips, gap>> the rescale step can leave
structured_rescaled(a) ==
    LET clips == structured_lines(a)
        gap == structured_gap(a)
        total_h == total_height(clips, gap)
        scale == <<a.rect[4], total_h>>
    IN  IF total_h > a.rect[4]
        THEN resized_lines(clips, scale) \X scaled_gap(gap, scale)
        ELSE {<<clips, gap>>}

\* the clip structured_multiline_clip returns, given line_clips and gap after
\* the rescale step: the lines stacked from y0, each with its window
structured_multiline_clip(a, clips, gap) ==
    LET total_h == total_height(clips, gap)
        y0 == CASE a.v_align = "center" ->
                        a.rect[2] + Max(0, (a.rect[4] - total_h) \div 2)
                [] a.v_align = "bottom" -> a.rect[2] + Max(0, a.rect[4] - total_h)
                [] OTHER -> a.rect[2]
        \* y_cursor += c.h + gap after each line
        y_cursor(i) == y0 + sum_heights(SubSeq(clips, 1, i - 1)) + gap * (i - 1)
    IN  [total_h |-> total_h,
         gap |-> gap,
         lines |->
            [i \in 1..Len(clips) |->
                [size |-> clips[i],
                 pos |-> _place_in_rect(clips[i],
                             <<a.rect[1], y_cursor(i), a.rect[3], clips[i][2]>>,
                             a.h_align, "top"),
                 start |-> line_start(i - 1, a.stagger),
                 duration |-> line_duration(a.duration,
                                            line_start(i - 1, a.stagger))]]]

---------------------------------------------------------------------------
(* tools/graphics/wrapper.py *)

\* wrapper.py imports make_solid_background from graphics/core.py, which does
\* not define it; the solid clip is taken as the one build_solid_background
\* of wrapper.py makes: a clip of the given size at no position of its own.

\* what probe_media reads from the file behind spec.src: its kind and, for
\* an image, its pixel size
ProbeInfos ==
    {[kind |-> "video", width |-> 1, height |-> 1]}
        \cup [kind : {"image"}, width : 1..(MaxLayoutDim + 2),
              height : 1..(MaxLayoutDim + 2)]

\* a wrapper raises ValueError(f"Invalid <role> spec: {errs}")
RaisedInvalid(label, errs) ==
    [ok |-> FALSE, kind |-> "ValueError", msg |-> label, errs |-> errs]

_maybe_snap(rect, spec, meta) ==
    IF spec.layout # <<>> /\ spec.layout[1].snap_safe
    THEN snap_to_safe(rect, meta) ELSE rect

\* graphics/core.py: compute_rect hands the source size on to fit_into_rect
compute_rect(src_wh, dst_rect, mode) ==
    fit_into_rect(src_wh[1], src_wh[2], dst_rect, mode)

\* the clip a wrapper returns, by the rect position_clip puts it in, and the
\* number of upscale warnings logged on the way
Placed(rect, warned) == Returned([rect |-> rect, warned |-> warned])

\* build_background(spec, meta, scene_duration) with info = probe_media(spec.src).
\* apply_policies raises on a missing layout before the spec is validated.
build_background(spec0, meta, info) ==
    IF spec0.layout = <<>>
    THEN Raised("ValueError", "GraphicSpec.layout is required")
    ELSE LET spec == apply_policies(spec0, meta)
             errs == validate_graphic_spec(spec, meta)
             ly == spec.layout[1]
             src_wh == <<info.width, info.height>>
             placed == compute_rect(src_wh, ly.rect, ly.mode)
         IN  IF errs # <<>> THEN RaisedInvalid("Invalid background spec", errs)
             ELSE IF spec.color # <<>> /\ spec.src = <<>>
             THEN Placed(<<0, 0, meta.width, meta.height>>, 0)
             ELSE IF info.kind # "image"
             THEN Raised("ValueError", "Background only supports images in MVP")
             ELSE Placed(_maybe_snap(placed, spec, meta),
                         warn_if_upscale(src_wh, placed, DefaultLimit))

\* the body build_illustration and build_overlay share: the layout rect is
\* snapped first and the image is then placed into the snapped rect
build_placed(label, unsupported, spec0, meta, info) ==
    IF spec0.layout = <<>>
    THEN Raised("ValueError", "GraphicSpec.layout is required")
    ELSE LET spec == apply_policies(spec0, meta)
             errs == validate_graphic_spec(spec, meta)
             ly == spec.layout[1]
             rect == _maybe_snap(ly.rect, spec, meta)
             src_wh == <<info.width, info.height>>
             placed == compute_rect(src_wh, rect, ly.mode)
         IN  IF errs # <<>> THEN RaisedInvalid(label, errs)
             ELSE IF spec.color # <<>> /\ spec.src = <<>>
             THEN Placed(rect, 0)
             ELSE IF info.kind # "image"
             THEN Raised("ValueError", unsupported)
             ELSE Placed(placed, warn_if_upscale(src_wh, placed, DefaultLimit))

build_illustration(spec, meta, info) ==
    build_placed("Invalid illustration spec",
                 "Illustration supports images only in MVP", spec, meta, info)

build_overlay(spec, meta, info) ==
    build_placed("Invalid overlay spec",
                 "Overlay supports images only in MVP", spec, meta, info)

---------------------------------------------------------------------------
(* The client: one call from the idle state *)

NoCall == [op |-> "none"]

NoValue == [kind |-> "none"]

Init ==
    /\ pc = "idle"
    /\ call = NoCall
    /\ ret = NoValue
    /\ warnings = 0
    /\ gspec = <<>>

SnapToSafe ==
    /\ pc = "idle"
    /\ \E rect \in Rects, meta \in Metas :
        /\ call' = [op |-> "snap_to_safe", rect |-> rect, meta |-> meta]
        /\ ret' = [kind |-> "rect", rect |-> snap_to_safe(rect, meta)]
    /\ pc' = "returned"
    /\ UNCHANGED <<warnings, gspec>>

FitIntoRect ==
    /\ pc = "idle"
    /\ \E src_w \in Dims, src_h \in Dims, dst_rect \in DstRects, mode \in Modes :
        /\ call' = [op |-> "fit_into_rect", src_w |-> src_w, src_h |-> src_h,
                    dst_rect |-> dst_rect, mode |-> mode]
        /\ ret' = [kind |-> "rect",
                   rect |-> fit_into_rect(src_w, src_h, dst_rect, mode)]
    /\ pc' = "returned"
    /\ UNCHANGED <<warnings, gspec>>

PlaceInRect ==
    /\ pc = "idle"
    /\ \E dst_rect \in Rects, align \in Aligns :
        /\ call' = [op |-> "place_in_rect", dst_rect |-> dst_rect, align |-> align]
        /\ ret' = [kind |-> "anchor", anchor |-> place_in_rect(dst_rect, align)]
    /\ pc' = "returned"
    /\ UNCHANGED <<warnings, gspec>>

\* the body of a warn_if_upscale call: the log grows, None is returned and
\* the rect the caller holds in ret is left as it was
WarnCall(src_wh, dst_rect, limit) ==
    /\ call' = [op |-> "warn_if_upscale", src_wh |-> src_wh,
                dst_rect |-> dst_rect, limit |-> limit]
    /\ warnings' = warnings + warn_if_upscale(src_wh, dst_rect, limit)
    /\ pc' = "returned"
    /\ UNCHANGED <<ret, gspec>>

\* warn_if_upscale called on its own, or on the rect fit_into_rect has just
\* placed, with that call's source size and limit=1.5 (graphics/wrapper.py
\* lines 53-54, 81-82 and 107-108)
WarnIfUpscale ==
    \/ /\ pc = "idle"
       /\ \E src_wh \in Dims \X Dims, dw \in Dims, dh \in Dims, limit \in Limits :
            WarnCall(src_wh, <<0, 0, dw, dh>>, limit)
    \/ /\ pc = "returned"
       /\ call.op = "fit_into_rect"
       /\ WarnCall(<<call.src_w, call.src_h>>, ret.rect, DefaultLimit)

NextGeometry ==
    \/ SnapToSafe
    \/ FitIntoRect
    \/ PlaceInRect
    \/ WarnIfUpscale

SpecGeometry == Init /\ [][NextGeometry]_vars

\* the caller constructs a GraphicSpec object
NewGraphicSpec ==
    /\ pc = "idle"
    /\ \E spec \in GraphicSpecs : gspec' = <<spec>>
    /\ call' = [op |-> "GraphicSpec"]
    /\ pc' = "built"
    /\ UNCHANGED <<ret, warnings>>

\* apply_policies(spec, meta) on the caller's object: ValueError when
\* spec.layout is None, else the object is updated in place and returned
ApplyPolicies ==
    /\ pc = "built"
    /\ \E meta \in PolicyMetas :
        /\ call' = [op |-> "apply_policies", spec |-> gspec[1], meta |-> meta]
        /\ IF gspec[1].layout = <<>>
           THEN /\ pc' = "raised"
                /\ ret' = [kind |-> "ValueError"]
                /\ UNCHANGED gspec
           ELSE /\ pc' = "returned"
                /\ gspec' = <<apply_policies(gspec[1], meta)>>
                /\ ret' = [kind |-> "spec", spec |-> gspec'[1]]
    /\ UNCHANGED warnings

\* validate_graphic_spec(spec, meta) on the caller's object, which it only reads
ValidateGraphicSpec ==
    /\ pc = "built"
    /\ \E meta \in PolicyMetas :
        /\ call' = [op |-> "validate_graphic_spec", spec |-> gspec[1], meta |-> meta]
        /\ ret' = [kind |-> "errors",
                   errors |-> validate_graphic_spec(gspec[1], meta)]
    /\ pc' = "returned"
    /\ UNCHANGED <<warnings, gspec>>

\* the body of a wrapper call on the caller's object: apply_policies has
\* updated the object in place by the time the wrapper returns or raises
WrapperCall(op, meta, info, out) ==
    /\ call' = [op |-> op, spec |-> gspec[1], meta |-> meta, info |-> info]
    /\ gspec' = IF gspec[1].layout = <<>> THEN gspec
                ELSE <<apply_policies(gspec[1], meta)>>
    /\ pc' = IF out.ok THEN "returned" ELSE "raised"
    /\ ret' = IF out.ok THEN [kind |-> "clip", rect |-> out.val.rect]
              ELSE IF "errs" \in DOMAIN out
              THEN [kind |-> out.kind, msg |-> out.msg, errs |-> out.errs]
              ELSE [kind |-> out.kind, msg |-> out.msg]
    /\ warnings' = warnings + (IF out.ok THEN out.val.warned ELSE 0)

BuildBackground ==
    /\ pc = "built"
    /\ \E meta \in PolicyMetas, info \in ProbeInfos :
        WrapperCall("build_background", meta, info,
                    build_background(gspec[1], meta, info))

BuildIllustration ==
    /\ pc = "built"
    /\ \E meta \in PolicyMetas, info \in ProbeInfos :
        WrapperCall("build_illustration", meta, info,
                    build_illustration(gspec[1], meta, info))

BuildOverlay ==
    /\ pc = "built"
    /\ \E meta \in PolicyMetas, info \in ProbeInfos :
        WrapperCall("build_overlay", meta, info,
                    build_overlay(gspec[1], meta, info))

NextPolicy ==
    \/ NewGraphicSpec
    \/ ApplyPolicies
    \/ ValidateGraphicSpec
    \/ BuildBackground
    \/ BuildIllustration
    \/ BuildOverlay

SpecPolicy == Init /\ [][NextPolicy]_vars

---------------------------------------------------------------------------
(* The client of the scene builder *)

\* lists of at most n items of S
ListsUpTo(S, n) == UNION {[1..k -> S] : k \in 0..n}

\* times in hundredths of a second
Durations == {-100, 0, 100}

Starts == {-1, 0}

\* the keys of the background dict
Backgrounds == {{}, {"color"}, {"video", "image"}}

\* The records build_scene is called with are a part of the records the
\* normalizers are called with one at a time.
SceneSlotItems ==
    {s \in SlotItems :
        /\ s.style = <<>>
        /\ s.rect # <<>>
        /\ (s.rect[1][3] > 0 /\ s.rect[1][4] > 0) \/ s.slot_id = <<"term">>}

SceneGraphicItems ==
    {g \in GraphicItems :
        /\ g.role \in {<<>>, <<"background">>, <<"banner">>}
        /\ g.color = <<>> /\ g.size = <<>> /\ g.z_hint = <<>>
        /\ g.layout # <<>>
        /\ g.layout[1].mode = <<>> /\ g.layout[1].snap_safe = <<>>
        /\ g.layout[1].rect \in {<<<<0, 0, 2, 1>>>>, <<<<0, 0, 2, 0>>>>}
        /\ \/ g.src # <<>> /\ g.role # <<"banner">>
           \/ g.src = <<>> /\ g.role # <<"background">>
                          /\ g.layout[1].rect = <<<<0, 0, 2, 1>>>>}

ScenePresenters ==
    {<<>>} \cup
    {<<p>> : p \in {q \in PresenterItems :
                        /\ q.shape = <<>> /\ q.layer = <<>>
                        /\ q.rect \in {<<>>, <<<<0, 0, 2, 1>>>>, <<<<0, 0, 0, 1>>>>}}}

\* the outcome of a call as the client sees it
Outcome(result, kind) ==
    IF result.ok THEN [kind |-> kind, val |-> result.val]
    ELSE [kind |-> result.kind, msg |-> result.msg]

Finish(result, kind) ==
    /\ ret' = Outcome(result, kind)
    /\ pc' = IF result.ok THEN "returned" ELSE "raised"
    /\ UNCHANGED <<warnings, gspec>>

\* _normalize_style over None and over every style dict
NormalizeStyle ==
    /\ pc = "idle"
    /\ \E d \in {<<>>} \cup {<<x>> : x \in StyleDicts} :
        /\ call' = [op |-> "_normalize_style", d |-> d]
        /\ Finish(Returned(_normalize_style(d)), "Style")

\* _normalize_texts over a list of at most MaxSlots records
NormalizeTexts ==
    /\ pc = "idle"
    /\ \E items \in ListsUpTo(SlotItems, MaxSlots) :
        /\ call' = [op |-> "_normalize_texts", items |-> items, meta |-> SceneMeta]
        /\ Finish(_normalize_texts(items, SceneMeta), "TextSpecs")

\* _normalize_graphics over the empty list and over one record
NormalizeGraphics ==
    /\ pc = "idle"
    /\ \E items \in {<<>>} \cup {<<g>> : g \in GraphicItems} :
        /\ call' = [op |-> "_normalize_graphics", items |-> items, meta |-> SceneMeta]
        /\ Finish(_normalize_graphics(items, SceneMeta), "GraphicSpecs")

\* _normalize_presenter over None and over one record
NormalizePresenter ==
    /\ pc = "idle"
    /\ \E item \in {<<>>} \cup {<<p>> : p \in PresenterItems} :
        /\ call' = [op |-> "_normalize_presenter", item |-> item, meta |-> SceneMeta]
        /\ Finish(_normalize_presenter(item, SceneMeta), "PresenterSpec")

BuildScene ==
    /\ pc = "idle"
    /\ \E start \in Starts, duration \in Durations, background \in Backgrounds,
          slots \in ListsUpTo(SceneSlotItems, MaxSlots),
          graphics \in ListsUpTo(SceneGraphicItems, MaxGraphics),
          presenter \in ScenePresenters :
        LET a == [meta |-> SceneMeta, scene_id |-> "s1", scene_type |-> "content",
                  transition_out |-> <<"fade">>,
                  start |-> start, duration |-> duration,
                  background |-> background, slots |-> slots,
                  graphics |-> graphics, presenter |-> presenter]
        IN  /\ call' = [op |-> "build_scene", args |-> a]
            /\ Finish(build_scene(a), "Scene")

NextScene ==
    \/ NormalizeStyle
    \/ NormalizeTexts
    \/ NormalizeGraphics
    \/ NormalizePresenter
    \/ BuildScene

SpecScene == Init /\ [][NextScene]_vars

---------------------------------------------------------------------------
(* The client of the text layout *)

WrappedArgs ==
    [element_id : {"title", "equation", "captions"},
     base : TextBlocks,
     rect : TextRects,
     h_align : Aligns,
     px : FontSizes,
     style : {DefaultStyle},
     max_lines : {<<>>, <<1>>, <<2>>},
     overflow : {"none", "shrink"},
     min_font_size : MinFontSizes]

WrappedTextClip ==
    /\ pc = "idle"
    /\ \E a \in WrappedArgs :
        /\ call' = [op |-> "wrapped_text_clip", args |-> a]
        /\ \E size \in wrapped_sizes(a) :
            ret' = [kind |-> "clip", val |-> wrapped_text_clip(a, size)]
    /\ pc' = "returned"
    /\ UNCHANGED <<warnings, gspec>>

\* stagger and duration in milliseconds
Staggers == {-250, 0, 250, 600}

StructuredArgs ==
    [lines : UNION {[1..n -> TextBlocks] : n \in 1..MaxLines},
     rect : TextRects,
     h_align : {"left", "right"},
     v_align : {"top", "center", "bottom"},
     px : FontSizes,
     style : {DefaultStyle},
     gap_px : {<<>>, <<1>>},
     duration : {500},
     stagger : Staggers]

StructuredMultilineClip ==
    /\ pc = "idle"
    /\ \E a \in StructuredArgs :
        /\ call' = [op |-> "structured_multiline_clip", args |-> a]
        /\ \E rescaled \in structured_rescaled(a) :
            ret' = [kind |-> "clip",
                    val |-> structured_multiline_clip(a, rescaled[1], rescaled[2])]
    /\ pc' = "returned"
    /\ UNCHANGED <<warnings, gspec>>

NextText ==
    \/ WrappedTextClip
    \/ StructuredMultilineClip

SpecText == Init /\ [][NextText]_vars

\* the geometry together with the wrappers that place graphics with it
NextPlacement ==
    \/ NextGeometry
    \/ NextPolicy

SpecPlacement == Init /\ [][NextPlacement]_vars

Next ==
    \/ NextGeometry
    \/ NextPolicy
    \/ NextScene
    \/ NextText

Spec == Init /\ [][Next]_vars

---------------------------------------------------------------------------
(* Claims about snap_to_safe *)

Abs(a) == IF a >= 0 THEN a ELSE -a

IsSnap == pc = "returned" /\ call.op = "snap_to_safe"

\* the title-safe box of the canvas of the snap_to_safe call
SafeLeft == safe_margin(call.meta.width, call.meta.title_area)

SafeRight == call.meta.width - SafeLeft

SafeTop == safe_margin(call.meta.height, call.meta.title_area)

SafeBottom == call.meta.height - SafeTop

\* C1: the rect snap_to_safe returns lies fully inside the canvas, for every
\* input rect, those larger than the canvas included.
C1_OutputInsideCanvas ==
    IsSnap =>
        /\ 0 <= ret.rect[1]
        /\ ret.rect[1] + ret.rect[3] <= call.meta.width
        /\ 0 <= ret.rect[2]
        /\ ret.rect[2] + ret.rect[4] <= call.meta.height

\* C2: a rect no wider and no taller than the safe box is returned inside
\* [safeLeft, safeRight] x [safeTop, safeBottom].
C2_FittingRectInsideSafeBox ==
    (/\ IsSnap
     /\ call.rect[3] <= SafeRight - SafeLeft
     /\ call.rect[4] <= SafeBottom - SafeTop)
    =>  /\ SafeLeft <= ret.rect[1]
        /\ ret.rect[1] + call.rect[3] <= SafeRight
        /\ SafeTop <= ret.rect[2]
        /\ ret.rect[2] + call.rect[4] <= SafeBottom

\* a rect of positive size that fits the safe box and started outside it
C2_Witness ==
    /\ IsSnap
    /\ call.rect[3] > 0 /\ call.rect[3] <= SafeRight - SafeLeft
    /\ call.rect[4] > 0 /\ call.rect[4] <= SafeBottom - SafeTop
    /\ call.rect[1] + call.rect[3] > SafeRight
    /\ call.rect[2] < SafeTop

\* C3: a rect wider than the safe box gets x = safeLeft clamped into
\* [0, canvasWidth - width] (the lower bound 0 winning when that range is
\* empty), whatever its input x; a rect taller than the safe box gets y the
\* same way from safeTop; each axis is decided on its own, so the axis that
\* fits is clamped into the safe box.
C3_TooLongPinnedToSafeOrigin ==
    IsSnap =>
        LET w == call.rect[3]
            h == call.rect[4]
            wide == w > SafeRight - SafeLeft
            tall == h > SafeBottom - SafeTop
            pinned(lo, canvas, len) ==
                IF lo <= canvas - len THEN lo
                ELSE IF canvas - len >= 0 THEN canvas - len ELSE 0
        IN  /\ wide => ret.rect[1] = pinned(SafeLeft, call.meta.width, w)
            /\ tall => ret.rect[2] = pinned(SafeTop, call.meta.height, h)
            /\ ~wide => SafeLeft <= ret.rect[1] /\ ret.rect[1] + w <= SafeRight
            /\ ~tall => SafeTop <= ret.rect[2] /\ ret.rect[2] + h <= SafeBottom

\* too wide for the safe box but not for the canvas, not too tall, and moved
\* on both axes
C3_Witness ==
    /\ IsSnap
    /\ call.rect[3] > SafeRight - SafeLeft
    /\ call.rect[3] <= call.meta.width
    /\ call.rect[4] > 0 /\ call.rect[4] <= SafeBottom - SafeTop
    /\ SafeLeft > 0
    /\ ret.rect[1] # call.rect[1]
    /\ ret.rect[2] # call.rect[2]

\* C4: snap_to_safe only translates: the width and height returned are the
\* input's, and a rect already inside the safe box is returned unchanged.
C4_OnlyTranslates ==
    IsSnap =>
        /\ ret.rect[3] = call.rect[3]
        /\ ret.rect[4] = call.rect[4]
        /\ (/\ SafeLeft <= call.rect[1]
            /\ call.rect[1] + call.rect[3] <= SafeRight
            /\ SafeTop <= call.rect[2]
            /\ call.rect[2] + call.rect[4] <= SafeBottom)
           => ret.rect = call.rect

\* a rect too wide and too tall for the safe box that was moved
C4_Witness ==
    /\ IsSnap
    /\ call.rect[3] > SafeRight - SafeLeft
    /\ call.rect[4] > SafeBottom - SafeTop
    /\ ret.rect[1] # call.rect[1]
    /\ ret.rect[3] = call.rect[3]

---------------------------------------------------------------------------
(* Claims about fit_into_rect *)

IsFit == pc = "returned" /\ call.op = "fit_into_rect"

FitPositive ==
    /\ call.src_w > 0 /\ call.src_h > 0
    /\ call.dst_rect[3] > 0 /\ call.dst_rect[4] > 0

\* the scale the mode chooses among dstW/srcW and dstH/srcH, as <<n, d>>:
\* the one no larger than the other for "fit", no smaller for "cover"
ChosenScale ==
    LET ratios == { <<call.dst_rect[3], call.src_w>>,
                    <<call.dst_rect[4], call.src_h>> }
    IN  IF call.mode = "cover"
        THEN CHOOSE s \in ratios : \A t \in ratios : s[1] * t[2] >= t[1] * s[2]
        ELSE CHOOSE s \in ratios : \A t \in ratios : s[1] * t[2] <= t[1] * s[2]

\* C5: for positive sizes, mode "fit" returns w <= dstW and h <= dstH and mode
\* "cover" returns w >= dstW and h >= dstH (the claim allows 1px of rounding;
\* none is needed).
C5_FitInsideCoverOutside ==
    (IsFit /\ FitPositive) =>
        /\ call.mode = "fit" =>
            ret.rect[3] <= call.dst_rect[3] /\ ret.rect[4] <= call.dst_rect[4]
        /\ call.mode = "cover" =>
            ret.rect[3] >= call.dst_rect[3] /\ ret.rect[4] >= call.dst_rect[4]

\* a cover placement that overflows the destination's height
C5_Witness ==
    /\ IsFit /\ FitPositive
    /\ call.mode = "cover"
    /\ ret.rect[3] = call.dst_rect[3]
    /\ ret.rect[4] > call.dst_rect[4]

\* C6 as claimed: both returned sizes are within 1/2 px of the scaled source
\* sizes, |w - sw*scale| <= 1/2 and |h - sh*scale| <= 1/2, extreme aspect
\* ratios included.
C6_SizesWithinHalfPixel ==
    (IsFit /\ FitPositive) =>
        /\ 2 * Abs(ret.rect[3] * ChosenScale[2] - call.src_w * ChosenScale[1])
              <= ChosenScale[2]
        /\ 2 * Abs(ret.rect[4] * ChosenScale[2] - call.src_h * ChosenScale[1])
              <= ChosenScale[2]

\* C6 as amended: a returned size is within 1/2 px of the scaled source size
\* when that scaled size is at least 1/2 px, and is the 1px minimum when the
\* scaled size is below 1/2 px.
C6_SizesWithinHalfPixelOrMinimum ==
    (IsFit /\ FitPositive) =>
        LET sn == ChosenScale[1]
            sd == ChosenScale[2]
            near(out, src) ==
                IF 2 * src * sn >= sd
                THEN 2 * Abs(out * sd - src * sn) <= sd
                ELSE out = 1
        IN  near(ret.rect[3], call.src_w) /\ near(ret.rect[4], call.src_h)

\* a fit whose scaled height is below 1/2 px
C6_Witness ==
    /\ IsFit /\ FitPositive
    /\ call.mode = "fit"
    /\ 2 * call.src_h * ChosenScale[1] < ChosenScale[2]
    /\ ret.rect[4] = 1

\* C7: with any of srcW, srcH, dstW, dstH <= 0 the result is the zero-size
\* rect (dstX, dstY, 0, 0); a mode other than "fit" and "cover" gives what
\* "fit" gives for the same inputs.
C7_DegenerateAndFallback ==
    IsFit =>
        /\ ~FitPositive =>
            ret.rect = <<call.dst_rect[1], call.dst_rect[2], 0, 0>>
        /\ call.mode \notin {"fit", "cover"} =>
            ret.rect = fit_into_rect(call.src_w, call.src_h, call.dst_rect, "fit")

\* an unrecognised mode on inputs where "fit" and "cover" differ
C7_Witness ==
    /\ IsFit /\ FitPositive
    /\ call.mode = "stretch"
    /\ ret.rect # fit_into_rect(call.src_w, call.src_h, call.dst_rect, "cover")

---------------------------------------------------------------------------
(* Claims about place_in_rect and warn_if_upscale *)

IsPlace == pc = "returned" /\ call.op = "place_in_rect"

\* C8 as claimed: anchorX is rect.x, rect.x + rect.width/2 or
\* rect.x + rect.width by alignment and centerY is rect.y + rect.height/2,
\* exactly, odd widths and heights included.
C8_AnchorExact ==
    IsPlace =>
        LET x == call.dst_rect[1]
            y == call.dst_rect[2]
            w == call.dst_rect[3]
            h == call.dst_rect[4]
        IN  /\ 2 * ret.anchor[2] = 2 * y + h
            /\ call.align = "left" => ret.anchor[1] = x
            /\ call.align = "center" => 2 * ret.anchor[1] = 2 * x + w
            /\ call.align = "right" => ret.anchor[1] = x + w

\* k is the integer nearest n/2, the even one of the two when n is odd
NearestToHalf(k, n) ==
    /\ Abs(2 * k - n) <= 1
    /\ Abs(2 * k - n) = 1 => k % 2 = 0

\* C8 as amended: anchorX is rect.x for "left" and rect.x + rect.width for
\* "right"; for "center" it is rect.x + rect.width/2 rounded to the nearest
\* integer, halves to the even one, and centerY is rect.y + rect.height/2
\* rounded the same way (both exact for even widths and heights).
C8_AnchorRounded ==
    IsPlace =>
        LET x == call.dst_rect[1]
            y == call.dst_rect[2]
            w == call.dst_rect[3]
            h == call.dst_rect[4]
        IN  /\ NearestToHalf(ret.anchor[2], 2 * y + h)
            /\ call.align = "left" => ret.anchor[1] = x
            /\ call.align = "center" => NearestToHalf(ret.anchor[1], 2 * x + w)
            /\ call.align = "right" => ret.anchor[1] = x + w

\* a centred anchor in a rect of odd width and odd height
C8_Witness ==
    /\ IsPlace
    /\ call.align = "center"
    /\ call.dst_rect[3] > 0 /\ call.dst_rect[3] % 2 = 1
    /\ call.dst_rect[4] > 0 /\ call.dst_rect[4] % 2 = 1

IsWarn == call.op = "warn_if_upscale"

\* C9: warn_if_upscale logs its diagnostic exactly when the four sizes are
\* positive and max(dstW/srcW, dstH/srcH) > limit (not at scale = limit); it
\* returns without raising and the rect its caller placed is unchanged.
C9_WarnsIffOverLimit ==
    IsWarn =>
        LET sw == call.src_wh[1]
            sh == call.src_wh[2]
            dw == call.dst_rect[3]
            dh == call.dst_rect[4]
            ln == call.limit[1]
            ld == call.limit[2]
            positive == sw > 0 /\ sh > 0 /\ dw > 0 /\ dh > 0
            \* dw/sw <= limit and dh/sh <= limit
            within == dw * ld <= ln * sw /\ dh * ld <= ln * sh
        IN  /\ pc = "returned"
            /\ warnings = (IF positive /\ ~within THEN 1 ELSE 0)
            /\ ret.kind = "rect" => ret.rect = call.dst_rect

\* the diagnostic logged for the rect a fit_into_rect call placed
C9_Witness ==
    /\ IsWarn
    /\ warnings = 1
    /\ ret.kind = "rect"
    /\ ret.rect[3] > 0

---------------------------------------------------------------------------
(* Claims about the role policy resolver *)

IsPolicy == pc = "returned" /\ call.op = "apply_policies"

\* C10: after apply_policies a background spec has snap_safe = false and an
\* overlay spec snap_safe = true, whatever was supplied; illustration and
\* special keep the supplied snap_safe; the mode is kept when it is "fit" or
\* "cover" and is otherwise "cover" for background and "fit" for the rest.
C10_RolePolicy ==
    IsPolicy =>
        LET role == call.spec.role
            supplied == call.spec.layout[1]
            resolved == ret.spec.layout[1]
        IN  /\ role = "background" => resolved.snap_safe = FALSE
            /\ role = "overlay" => resolved.snap_safe = TRUE
            /\ role \in {"illustration", "special"} =>
                resolved.snap_safe = supplied.snap_safe
            /\ supplied.mode \in {"fit", "cover"} => resolved.mode = supplied.mode
            /\ supplied.mode \notin {"fit", "cover"} =>
                resolved.mode = (IF role = "background" THEN "cover" ELSE "fit")

\* an overlay supplied with snap_safe = false and an unrecognised mode
C10_Witness ==
    /\ IsPolicy
    /\ call.spec.role = "overlay"
    /\ call.spec.layout[1].snap_safe = FALSE
    /\ call.spec.layout[1].mode = "stretch"
    /\ ret.spec.layout[1].snap_safe = TRUE

IsValidate == pc = "returned" /\ call.op = "validate_graphic_spec"

\* the entries of a list of violations
Entries(errors) == {errors[i] : i \in 1..Len(errors)}

\* C11: validate_graphic_spec returns every violation, not the first only: one
\* entry for each violated rule among {role outside the four values, neither
\* src nor color present, layout missing, layout rect width or height <= 0},
\* and the empty list exactly when no rule is violated.
C11_AllViolationsReturned ==
    IsValidate =>
        LET spec == call.spec
            bad_role == spec.role \notin
                            {"background", "illustration", "overlay", "special"}
            no_source == spec.src = <<>> /\ spec.color = <<>>
            no_layout == spec.layout = <<>>
            bad_rect == /\ spec.layout # <<>>
                        /\ \/ spec.layout[1].rect[3] <= 0
                           \/ spec.layout[1].rect[4] <= 0
            violated == {r \in {"role", "source", "layout", "rect"} :
                            \/ r = "role" /\ bad_role
                            \/ r = "source" /\ no_source
                            \/ r = "layout" /\ no_layout
                            \/ r = "rect" /\ bad_rect}
            reported == Entries(ret.errors)
        IN  /\ Len(ret.errors) = Cardinality(violated)
            /\ Cardinality(reported) = Cardinality(violated)
            /\ bad_role <=> "role invalid" \in reported
            /\ no_source <=>
                 reported \cap {"background needs either src (image) or color",
                                "non-background needs src or color (shape overlay)"} # {}
            /\ no_layout <=> "layout missing" \in reported
            /\ bad_rect <=> "layout.rect width/height must be > 0" \in reported
            /\ ret.errors = <<>> <=> violated = {}

\* a spec that violates three rules at once and gets three entries
C11_Witness ==
    /\ IsValidate
    /\ call.spec.role = "banner"
    /\ call.spec.src = <<>> /\ call.spec.color = <<>>
    /\ call.spec.layout # <<>>
    /\ Len(ret.errors) = 3

---------------------------------------------------------------------------
(* Claims about the scene builder, checked under SpecScene *)

IsBuildScene == pc \in {"returned", "raised"} /\ call.op = "build_scene"

IsScene == pc = "returned" /\ call.op = "build_scene"

IsNormalizeGraphics ==
    /\ pc \in {"returned", "raised"}
    /\ call.op = "_normalize_graphics"
    /\ Len(call.items) = 1

IsNormalizePresenter ==
    pc \in {"returned", "raised"} /\ call.op = "_normalize_presenter"

IsPositive(rect) == rect[3] > 0 /\ rect[4] > 0

\* C12: build_scene fails whenever duration <= 0, start < 0, or the background
\* has none of the keys color, video, image, whatever the other inputs are.
C12_ScalarsRejected ==
    (/\ IsBuildScene
     /\ \/ call.args.duration <= 0
        \/ call.args.start < 0
        \/ \A k \in {"color", "video", "image"} : k \notin call.args.background)
    => pc = "raised" /\ ret.kind = "ValueError"

\* duration = 0 is rejected with every other input valid
C12_Witness ==
    /\ IsBuildScene
    /\ call.args.duration = 0
    /\ call.args.start = 0
    /\ call.args.background = {"color"}
    /\ Len(call.args.slots) = 1
    /\ call.args.slots[1] = [slot_id |-> <<"term">>, rect |-> <<<<0, 0, 2, 1>>>>,
                           style |-> <<>>]
    /\ call.args.graphics = <<>>
    /\ call.args.presenter = <<>>
    /\ pc = "raised"

C15_RectsPositive ==
    IsBuildScene =>
        /\ pc = "returned" =>
            /\ \A i \in 1..Len(ret.val.slots) : IsPositive(ret.val.slots[i].rect)
            /\ \A i \in 1..Len(ret.val.graphics) :
                /\ ret.val.graphics[i].layout # <<>>
                /\ IsPositive(ret.val.graphics[i].layout[1].rect)
            /\ ret.val.presenter # <<>> => IsPositive(ret.val.presenter[1].rect)
        /\ (\/ \E i \in 1..Len(call.args.slots) :
                    /\ call.args.slots[i].rect # <<>>
                    /\ ~IsPositive(call.args.slots[i].rect[1])
            \/ \E i \in 1..Len(call.args.graphics) :
                    /\ call.args.graphics[i].layout # <<>>
                    /\ call.args.graphics[i].layout[1].rect # <<>>
                    /\ ~IsPositive(call.args.graphics[i].layout[1].rect[1])
            \/ /\ call.args.presenter # <<>>
               /\ call.args.presenter[1].rect # <<>>
               /\ ~IsPositive(call.args.presenter[1].rect[1]))
           => pc = "raised"

\* a call whose only fault is the presenter's zero-width rect fails on it
C15_Witness ==
    /\ IsBuildScene
    /\ call.args.duration > 0 /\ call.args.start = 0
    /\ call.args.background = {"color"}
    /\ call.args.slots = <<[slot_id |-> <<"term">>, rect |-> <<<<0, 0, 2, 1>>>>,
                           style |-> <<>>]>>
    /\ call.args.graphics = <<>>
    /\ call.args.presenter # <<>>
    /\ call.args.presenter[1].src # <<>>
    /\ call.args.presenter[1].rect = <<<<0, 0, 0, 1>>>>
    /\ pc = "raised"
    /\ ret.msg = "PresenterSpec must have positive width and height"

\* the z-order the specification gives each role
RoleZ(role) ==
    CASE role = "background" -> 0
      [] role = "illustration" -> 5
      [] role = "overlay" -> 30
      [] role = "special" -> 40

HasSize(item) ==
    /\ item.size # <<>>
    /\ Len(item.size[1]) = 2
    /\ item.size[1][1] > 0 /\ item.size[1][2] > 0

\* C17: for a graphic whose meta.size is a two-element sequence of positive
\* integers (sw, sh), normalization succeeds and the resolved rect is
\* fit_into_rect(sw, sh, R, mode), R being snap_to_safe(rect) when snap_safe
\* holds and rect otherwise; without such a size the resolved rect is R.
C17_FitAgainstSourceSize ==
    (/\ IsNormalizeGraphics
     /\ call.items[1].role \in {<<>>} \cup
            {<<r>> : r \in {"background", "illustration", "overlay", "special"}}
     /\ call.items[1].layout # <<>>
     /\ call.items[1].layout[1].rect # <<>>)
    =>  LET item == call.items[1]
            d == item.layout[1]
            mode == IF d.mode = <<>> THEN "fit" ELSE d.mode[1]
            snap_safe == IF d.snap_safe = <<>> THEN TRUE ELSE d.snap_safe[1]
            R == IF snap_safe THEN snap_to_safe(d.rect[1], call.meta)
                 ELSE d.rect[1]
        IN  /\ pc = "returned"
            /\ ret.val[1].layout[1].rect =
                   IF HasSize(item)
                   THEN fit_into_rect(item.size[1][1], item.size[1][2], R, mode)
                   ELSE R

\* the title-safe box of a canvas holds the rect
InSafeBox(rect, meta) ==
    LET mx == safe_margin(meta.width, meta.title_area)
        my == safe_margin(meta.height, meta.title_area)
    IN  /\ mx <= rect[1] /\ rect[1] + rect[3] <= meta.width - mx
        /\ my <= rect[2] /\ rect[2] + rect[4] <= meta.height - my

FitsSafeBox(rect, meta) ==
    /\ rect[3] <= meta.width - 2 * safe_margin(meta.width, meta.title_area)
    /\ rect[4] <= meta.height - 2 * safe_margin(meta.height, meta.title_area)

\* what C18 asks of a presenter record and the PresenterSpec made of it
PresenterSnapped(item, spec, meta) ==
    /\ spec.rect = snap_to_safe(item.rect[1], meta)
    /\ FitsSafeBox(item.rect[1], meta) => InSafeBox(spec.rect, meta)
    /\ spec.shape = IF item.shape = <<>> THEN "circle" ELSE item.shape[1]
    /\ spec.layer = IF item.layer = <<>> THEN 20 ELSE item.layer[1]

IsEmptyRecord(item) ==
    item.src = <<>> /\ item.rect = <<>> /\ item.shape = <<>> /\ item.layer = <<>>

---------------------------------------------------------------------------
(* Claims about the text layout, checked under SpecText *)

IsWrapped == pc = "returned" /\ call.op = "wrapped_text_clip"

\* the shrink step of wrapped_text_clip ran: overflow is "shrink" and the
\* padded block is higher than the allowed height
Shrunk ==
    /\ IsWrapped
    /\ call.args.overflow = "shrink"
    /\ ret.val.block[2] > ret.val.allowed_h

\* C19: with overflow = "shrink" the scale never falls below
\* min_font_size / font size: it is allowed_h / block height when font size
\* times that ratio is at least min_font_size, and min_font_size / font size
\* otherwise.
C19_ShrinkScalePinned ==
    Shrunk =>
        LET px == call.args.px
            min_font_size == call.args.min_font_size
            allowed_h == ret.val.allowed_h
            block_h == ret.val.block[2]
        IN  /\ ret.val.scale # <<>>
            /\ ret.val.scale[1][2] > 0
            /\ ret.val.scale[1][1] * px >= min_font_size * ret.val.scale[1][2]
            /\ IF px * allowed_h >= min_font_size * block_h
               THEN ret.val.scale[1][1] * block_h = allowed_h * ret.val.scale[1][2]
               ELSE ret.val.scale[1][1] * px = min_font_size * ret.val.scale[1][2]

\* a block shrunk by the pinned scale, the allowed height being too small
\* for the minimum font
C19_Witness ==
    /\ Shrunk
    /\ ret.val.allowed_h > 0
    /\ call.args.min_font_size < call.args.px
    /\ call.args.px * ret.val.allowed_h
            < call.args.min_font_size * ret.val.block[2]
    /\ ret.val.scale = <<<<call.args.min_font_size, call.args.px>>>>

IsStructured == pc = "returned" /\ call.op = "structured_multiline_clip"

\* what C20 asks of the windows when line i (from 0) is to start at i * step
WindowsBy(step) ==
    LET lines == ret.val.lines
    IN  /\ \A i \in 1..Len(lines) :
            /\ lines[i].start = (i - 1) * step
            /\ lines[i].duration =
                   IF call.args.duration - lines[i].start > 1
                   THEN call.args.duration - lines[i].start
                   ELSE 1
            /\ lines[i].duration > 0
        /\ \A i \in 1..(Len(lines) - 1) : lines[i].start <= lines[i + 1].start

\* C20: line i of structured_multiline_clip (i from 0) starts at i * stagger
\* and lasts max(epsilon, total duration - start), epsilon = 0.001 s, for
\* every stagger value; so starts never decrease and durations are positive.
C20_WindowsByStagger ==
    IsStructured => WindowsBy(call.args.stagger)

\* C20 amended: line i starts at i * max(0, stagger); the rest as stated.
C20_WindowsByClampedStagger ==
    IsStructured =>
        WindowsBy(IF call.args.stagger > 0 THEN call.args.stagger ELSE 0)

\* the second line starts after the segment has ended and lasts epsilon
C20_Witness ==
    /\ IsStructured
    /\ Len(ret.val.lines) = 2
    /\ call.args.stagger > call.args.duration
    /\ ret.val.lines[2].start = call.args.stagger
    /\ ret.val.lines[2].duration = 1

---------------------------------------------------------------------------
(* Further claims about the scene builder, checked under SpecScene *)

\* the input of build_scene is fully valid
ValidSceneInput(a) ==
    /\ a.duration > 0
    /\ a.start >= 0
    /\ "color" \in a.background
    /\ \A i \in 1..Len(a.slots) :
        /\ a.slots[i].slot_id # <<>>
        /\ a.slots[i].rect # <<>>
        /\ IsPositive(a.slots[i].rect[1])
    /\ \A i \in 1..Len(a.graphics) :
        /\ a.graphics[i].role \in {<<>>} \cup
               {<<r>> : r \in {"background", "illustration", "overlay", "special"}}
        /\ a.graphics[i].layout # <<>>
        /\ a.graphics[i].layout[1].rect # <<>>
        /\ IsPositive(a.graphics[i].layout[1].rect[1])
        /\ a.graphics[i].size = <<>>
    /\ a.presenter # <<>> =>
        /\ a.presenter[1].src # <<>>
        /\ a.presenter[1].rect # <<>>
        /\ IsPositive(a.presenter[1].rect[1])

---------------------------------------------------------------------------
(* Further claims about the role policy, checked under SpecPolicy *)

\* C22: apply_policies is free of side effects on its inputs: after the call
\* the caller's GraphicSpec and its Layout still hold the mode and snap_safe
\* they were passed with; the resolved values are only in the returned spec.
C22_CallerSpecUntouched ==
    IsPolicy =>
        /\ gspec[1].layout[1].mode = call.spec.layout[1].mode
        /\ gspec[1].layout[1].snap_safe = call.spec.layout[1].snap_safe

\* the check of build_scene a failure message belongs to
CheckOf(msg) ==
    CASE msg = "Duration must be greater than 0" -> "duration"
      [] msg = "Start time must be non-negative" -> "start"
      [] msg = "Background must contain at least one of 'color', 'video', or 'image'"
            -> "background"
      [] msg \in {"TextSpec must have a slot_id",
                  "TextSpec rect must be a 4-tuple (x, y, w, h)"} -> "slots"
      [] msg \in {"Invalid role", "Layout rect must be a 4-tuple (x, y, w, h)",
                  "'NoneType' object has no attribute 'get'",
                  "fit_into_rect() missing 1 required positional argument: 'dst_rect'"}
            -> "graphics"
      [] msg \in {"PresenterSpec must have a 'src' field",
                  "PresenterSpec must have a 'rect' field"} -> "presenter"
      [] msg = "TextSpec must have positive width and height" -> "slot rects"
      [] msg = "GraphicSpec must have positive width and height" -> "graphic rects"
      [] msg = "PresenterSpec must have positive width and height" -> "presenter rect"
      [] OTHER -> "unknown"

\* the checks in the order C23 gives them
CheckOrder ==
    <<"duration", "start", "background", "slots", "graphics", "presenter",
      "slot rects", "graphic rects", "presenter rect">>

\* the input violates the check
Violates(a, check) ==
    CASE check = "duration" -> a.duration <= 0
      [] check = "start" -> a.start < 0
      [] check = "background" -> a.background \cap {"color", "video", "image"} = {}
      [] check = "slots" ->
            \E i \in 1..Len(a.slots) :
                a.slots[i].slot_id = <<>> \/ a.slots[i].rect = <<>>
      [] check = "graphics" ->
            \E i \in 1..Len(a.graphics) :
                \/ a.graphics[i].role \notin {<<>>} \cup
                       {<<r>> : r \in {"background", "illustration", "overlay",
                                       "special"}}
                \/ a.graphics[i].layout = <<>>
                \/ a.graphics[i].layout[1].rect = <<>>
      [] check = "presenter" ->
            /\ a.presenter # <<>>
            /\ ~IsEmptyRecord(a.presenter[1])
            /\ a.presenter[1].src = <<>> \/ a.presenter[1].rect = <<>>
      [] check = "slot rects" ->
            \E i \in 1..Len(a.slots) :
                a.slots[i].rect # <<>> /\ ~IsPositive(a.slots[i].rect[1])
      [] check = "graphic rects" ->
            \E i \in 1..Len(a.graphics) :
                /\ a.graphics[i].layout # <<>>
                /\ a.graphics[i].layout[1].rect # <<>>
                /\ ~IsPositive(a.graphics[i].layout[1].rect[1])
      [] check = "presenter rect" ->
            /\ a.presenter # <<>>
            /\ a.presenter[1].rect # <<>>
            /\ ~IsPositive(a.presenter[1].rect[1])

Violated(a) == {k \in 1..Len(CheckOrder) : Violates(a, CheckOrder[k])}

IsWrapper ==
    /\ pc \in {"returned", "raised"}
    /\ call.op \in {"build_background", "build_illustration", "build_overlay"}

\* C24: a wrapper called with a spec that violates several rules raises one
\* error that carries every violation validate_graphic_spec reports for it
C24_FullViolationListRaised ==
    IsWrapper /\ Len(validate_graphic_spec(call.spec, call.meta)) >= 2
        => /\ pc = "raised"
           /\ "errs" \in DOMAIN ret
           /\ ret.errs = validate_graphic_spec(call.spec, call.meta)

\* graphic i of the returned scene came out as the role policy resolves it:
\* an overlay flagged and snapped, a background unflagged and left in place
RolePolicyApplied(i) ==
    LET g == ret.val.graphics[i]
        rect == call.args.graphics[i].layout[1].rect[1]
    IN  /\ g.role = "overlay"
            => /\ g.layout[1].snap_safe
               /\ g.layout[1].rect = snap_to_safe(rect, call.args.meta)
        /\ g.role = "background"
            => /\ ~g.layout[1].snap_safe
               /\ g.layout[1].rect = rect

Overflowed ==
    total_height(structured_lines(call.args), structured_gap(call.args))
        > call.args.rect[4]

\* C26: when the stacked lines are higher than a rect of positive height, the
\* total height recomputed after the rescale is at most the rect height
C26_RescaledBlockFits ==
    IsStructured /\ call.args.rect[4] > 0 /\ Overflowed
        => ret.val.total_h <= call.args.rect[4]

\* C27: the shrink step never enlarges the block, whatever the font size and
\* min_font_size, and with overflow = "none" the block keeps its size
C27_ShrinkNeverEnlarges ==
    /\ Shrunk => /\ ret.val.resized[1] <= ret.val.block[1]
                 /\ ret.val.resized[2] <= ret.val.block[2]
    /\ IsWrapped /\ call.args.overflow = "none"
            => ret.val.resized = ret.val.block

\* C28: with stagger >= 0 every line's window lies inside the segment: it
\* starts at or after 0 and ends at or before the total duration
C28_WindowsInsideSegment ==
    IsStructured /\ call.args.stagger >= 0 /\ call.args.duration > 0
        => \A i \in 1..Len(ret.val.lines) :
            /\ ret.val.lines[i].start >= 0
            /\ ret.val.lines[i].start + ret.val.lines[i].duration
                    <= call.args.duration

---------------------------------------------------------------------------
(* Claims about placement, checked under SpecPlacement *)

\* rect a lies inside rect b
Contained(a, b) ==
    /\ b[1] <= a[1] /\ a[1] + a[3] <= b[1] + b[3]
    /\ b[2] <= a[2] /\ a[2] + a[4] <= b[2] + b[4]

\* build_overlay returned a clip placed in "fit" mode into the safe-snapped
\* layout rect, for a layout rect that fits the safe box
OverlayFitted ==
    /\ pc = "returned" /\ call.op = "build_overlay"
    /\ gspec[1].layout[1].mode = "fit"
    /\ gspec[1].layout[1].snap_safe
    /\ FitsSafeBox(call.spec.layout[1].rect, call.meta)

\* C29: for positive sizes and mode "fit" the rect fit_into_rect returns lies
\* inside the destination rect, and so an overlay fitted into its snapped
\* rect lies inside the title-safe box
C29_FitStaysInside ==
    /\ IsFit /\ FitPositive /\ call.mode = "fit"
            => Contained(ret.rect, call.dst_rect)
    /\ OverlayFitted => InSafeBox(ret.rect, call.meta)

\* an overlay image two wide and one high, fitted into a rect that the snap
\* moved into the safe box
C29_Witness ==
    /\ OverlayFitted
    /\ call.spec.src # <<>>
    /\ call.info.width > call.info.height
    /\ ret.rect[1] > call.spec.layout[1].rect[1]
    /\ InSafeBox(ret.rect, call.meta)

---------------------------------------------------------------------------
(* Claims about the style of a text slot, checked under SpecScene *)

StyleKeys ==
    {"color", "stroke_color", "stroke_width", "opacity", "pad", "interline",
     "baseline_pad_pct", "top_pad_pct"}

\* the value of a field of Style as a dict would supply it
StyleValue(style, key) ==
    IF key = "stroke_color" THEN style[key][1] ELSE style[key]

\* what C30 asks of a style dict d and the Style made of it
StyleCarried(d, style) ==
    /\ \A key \in StyleKeys : d[key] # <<>> => StyleValue(style, key) = d[key][1]
    /\ d.interline = <<>> => style.interline = 4

IsNormalizeTexts == pc = "returned" /\ call.op = "_normalize_texts"

\* C30: the style of a normalized text slot carries every value its style
\* dict supplies, interline among them, and interline is 4 when not supplied
C30_StyleValuesCarried ==
    /\ IsNormalizeTexts
        => \A i \in 1..Len(ret.val) :
            call.items[i].style # <<>>
                => StyleCarried(call.items[i].style[1], ret.val[i].style)
    /\ pc = "returned" /\ call.op = "_normalize_style" /\ call.d # <<>>
        => StyleCarried(call.d[1], ret.val)

====
